---- MODULE Spec2Model ----
(***************************************************************************)
(* A model of the translation orchestrator of service.subtitles.translate: *)
(* translate_file with its on-disk cache, cleanup_cached_files,            *)
(* translate_text with its worker pool, and the chunk splitter split_doc.  *)
(*                                                                         *)
(* Subtitle documents are abstract values: the source document of a        *)
(* request is identified by the path it is read from, and the serialized   *)
(* translation of a document is the record Translation(doc, lang, flags).  *)
(* File systems are functions from a file name to the file's content; a    *)
(* file that does not exist is not in the function's domain.               *)
(***************************************************************************)
EXTENDS Integers, Sequences, FiniteSets, TLC

(***************************************************************************)
(* Program constants.                                                      *)
(***************************************************************************)
FILTER_NONE == 0
FILTER_BRACKETS == 1
FILTER_CAPS == 2
FILTER_HASHTAGS == 4
FILTER_COLOURS == 1024

(***************************************************************************)
(* Bounds of the model.                                                    *)
(***************************************************************************)
\* The most chunks split_doc returns for a merged document.
MaxChunks == 2
\* The longest text given to split_doc.
MaxLen == 5
\* The longest text given to filter_doc.
MaxFilterLen == 4
MaxFrases == 3
MaxTextLen == 4
MaxBlocks == 2
MaxBlockLen == 5
MaxTime == 4
MaxVttLen == 6
\* The player events a monitor receives.
MaxEvents == 6

(***************************************************************************)
(* The inputs: the calling contexts (threads), the video identifiers, the  *)
(* subtitle types, the target languages and the filter flags a caller      *)
(* passes, and the values the host's settings can hold.                    *)
(***************************************************************************)
Contexts == {"c1", "c2"}
Videos == {"v1", "v2"}
FileTypes == {"srt", "vtt", "sub"}
TargetLangs == {"auto", "nl", "zz"}
InitFlags == {-1, 9}
\* locale.subtitlelanguage as Kodi's JSON-RPC reports it; "{}" is a response
\* without result.value.
SubtitleLangSettings == {"none", "forced_only", "original", "default", "{}"}
\* locale.language, 'resources.language.nl_NL': the parts between the dots,
\* the last one as its parts between the underscores.
UiLanguageSettings == {<<"resources", "language", <<"nl", "NL">>>>}
\* The add-on's filter settings: the set of those that read 'true'.
AddonSettings == {{"filter_brackets"}}
\* Who calls translate_file: the web test (positional arguments only),
\* PlayerMonitor._execute_subtitles_translation and manual.translate.
Callers == {"test", "service", "manual"}

\* The source subtitle file of a context: each context translates a file of
\* its own.
FilePath(c) == IF c = "c1" THEN "subs1" ELSE "subs2"

\* What a call gives its caller: nothing yet, None, a raised exception, or
\* the path of the delivery file (KodiFileName below).
NotCalled == <<"-">>
Pending == <<"pending">>
None == <<"None">>
TypeError == <<"TypeError">>
\* A file's content: empty, or a serialized translation.
EmptyFile == <<>>

(***************************************************************************)
(* Pure helpers of translate.py.                                           *)
(***************************************************************************)
\* Language(name).id of translatepy: several names of a language map to one
\* id; an unknown name raises UnknownLanguage.
LanguageId(name) ==
    CASE name \in {"nl", "nld", "Dutch", "dutch"} -> "nld"
      [] OTHER -> "UnknownLanguage"

\* get_kodi_ui_language: data.split('.')[-1].split('_')[0]
get_kodi_ui_language(data) == data[Len(data)][1]

\* The settings that ask for no translated subtitles.
NoSubtitles == {"none", "forced_only", "original"}

\* A faulty variant of get_preferred_subtitle_lang: only "none" and
\* "forced_only" ask for no subtitles, "original" is taken for "default".
preferred_lang_original_as_default(data, ui) ==
    CASE data = "{}" -> "raise"
      [] data \in {"none", "forced_only"} -> "None"
      [] data \in {"default", "original"} -> get_kodi_ui_language(ui)
      [] OTHER -> data

\* get_preferred_subtitle_lang: None for the settings that ask for no
\* subtitles, the UI language for 'default', the setting itself otherwise;
\* a response without result.value raises.
get_preferred_subtitle_lang(data, ui) ==
    CASE data = "{}" -> "raise"
      [] data \in NoSubtitles -> "None"
      [] data = "default" -> get_kodi_ui_language(ui)
      [] OTHER -> data

\* x & (FILTER_BRACKETS | FILTER_CAPS | FILTER_HASHTAGS) for x >= 0
MaskFilters(x) == x % (FILTER_BRACKETS + FILTER_CAPS + FILTER_HASHTAGS + 1)

\* get_filter_flags: the caller's flags masked to the three text filters, or
\* the add-on's settings when the caller passes a negative value; the colour
\* flag always comes from the settings.
get_filter_flags(init_flags, settings) ==
    LET filters ==
            IF init_flags >= 0
            THEN MaskFilters(init_flags)
            ELSE FILTER_NONE
                 + (IF "filter_brackets" \in settings THEN FILTER_BRACKETS ELSE 0)
                 + (IF "filter_all_caps" \in settings THEN FILTER_CAPS ELSE 0)
                 + (IF "filter_hashtags" \in settings THEN FILTER_HASHTAGS ELSE 0)
    IN  filters + (IF "subtitles_color" \in settings THEN FILTER_COLOURS ELSE 0)

\* md5(video_file).hexdigest(): a digest per video identifier.
Md5(video) == <<"md5", video>>

\* The name of the cache file of a (video, filter flags, language) key.
CacheFileName(video, flags, lang) == <<Md5(video), flags, lang>>

\* The name of the file handed to Kodi: '<Translated>.<lang id>.srt' in the
\* add-on's temp directory.
KodiFileName(lang) == <<"translated_subs", lang>>

\* str(orig_subs_obj) after the translation has been applied: the serialized
\* translation of a document.
Translation(doc, lang, flags) == <<doc, lang, flags>>

\* The parameters of translate_file.
Parameters ==
    {"video_file", "file_path", "file_type", "target_lang", "src_lang", "filter_flags"}

\* The keyword arguments each caller passes.
KeywordArgs(caller) ==
    CASE caller = "service" -> {"src_lang", "filter_flags", "display_time"}
      [] caller = "manual" -> {"display_time"}
      [] OTHER -> {}

\* Python binds a call only when every keyword names a parameter; otherwise
\* the call raises TypeError before the function body runs.
Binds(caller) == KeywordArgs(caller) \subseteq Parameters

VARIABLES
    req,        \* per context: the translate_file call it runs or ran last
    cacheDir,   \* the translations in SUBS_CACHE_DIR: file name -> content
    tempDir,    \* the add-on's temp directory: file name -> content
    pool,       \* a call of translate_text and its worker pool
    split,      \* a call of split_doc: its arguments and what it gave
    pure        \* a call of another pure function: its arguments and results

vars == <<req, cacheDir, tempDir, pool, split, pure>>

(***************************************************************************)
(* A call's record.  video_file, target_lang and filter_flags are the      *)
(* function's variables of those names: target_lang holds the argument and *)
(* then the id of the language it resolves to, filter_flags the argument   *)
(* and then the flags get_filter_flags returns.  pref is the host's        *)
(* subtitle-language setting when the call was made with 'auto' and read a *)
(* setting that asks for no translated subtitles ("-" otherwise).  The     *)
(* others record what the call has done: hit (the cache check found the    *)
(* file), readSrc (it read the source subtitles), sent (it sent requests   *)
(* to the translation service), new_txt (what translate_text returned),    *)
(* wroteCache and wroteTemp (it opened the cache or the delivery file for  *)
(* writing), failed (the stage that ended it without a result), apart (it   *)
(* ran concurrently with the other context's current call, which has       *)
(* another cache key).                                                     *)
(* The debugging artefacts orig.txt, srt_filtered.txt and translated.txt   *)
(* are written by every call and read by none; only the failure of writing *)
(* them is modelled.                                                       *)
(***************************************************************************)
IdleCall ==
    [pc |-> "idle", caller |-> "-", video_file |-> "-", target_lang |-> "-",
     filter_flags |-> 0, pref |-> "-", new_txt |-> "-",
     result |-> NotCalled, hit |-> FALSE, readSrc |-> FALSE, sent |-> FALSE,
     wroteCache |-> FALSE, wroteTemp |-> FALSE, failed |-> "-",
     apart |-> FALSE]

\* No call of translate_text, no call of split_doc.
NoPool ==
    [pc |-> "idle", n |-> 0, status |-> <<>>, result |-> <<>>, finished |-> <<>>,
     returned |-> <<"-">>]
NoSplit == [src_txt |-> <<>>, max_len |-> 0, pc |-> "idle", out |-> <<"-">>]
NoCall == [pc |-> "idle"]

Init ==
    /\ req = [c \in Contexts |-> IdleCall]
    /\ cacheDir = <<>>
    /\ tempDir = <<>>
    /\ pool = NoPool
    /\ split = NoSplit
    /\ pure = NoCall

\* A file system with files removed, or a file created or overwritten.
Remove(fs, names) == [f \in DOMAIN fs \ names |-> fs[f]]
Put(fs, name, content) ==
    [f \in DOMAIN fs \cup {name} |-> IF f = name THEN content ELSE fs[f]]

\* os.path.isfile(name)
IsFile(fs, name) == name \in DOMAIN fs

\* The call ends and gives value to its caller; why names the stage that
\* ended it without a result ("-": none).  video_file ends with the call.
Return(c, value, why, done) ==
    req' = [req EXCEPT ![c] = [done EXCEPT !.pc = "idle", !.result = value,
                                           !.failed = why, !.video_file = "-"]]

\* The except clause of translate_file (lines 453-457): the error is
\* logged and the function ends without a return value.
Caught(c, stage) == Return(c, None, stage, req[c])

(***************************************************************************)
(* translate_text as translate_file sees it: the chunks' outcomes decide   *)
(* what the call returns.  A chunk's request returns the stripped          *)
(* translation ("text", or "" when the service returned only white space), *)
(* None when every service failed with NoResult, or raises another error.  *)
(***************************************************************************)
ChunkOutcomes == {"text", "", "None", "raise"}

\* '\n'.join(r.result() for r in res): str.join raises TypeError on an item
\* that is no string, Future.result re-raises the task's exception; the
\* joined text is empty for a single empty chunk only.
JoinResults(outs) ==
    IF \E i \in DOMAIN outs : outs[i] \in {"None", "raise"}
    THEN "raise"
    ELSE IF Len(outs) = 1 /\ outs[1] = "" THEN "" ELSE "text"

(***************************************************************************)
(* translate_file, one action per stage that touches the shared            *)
(* directories or returns.                                                 *)
(***************************************************************************)
\* A call for video v that starts in context c while the other contexts'
\* calls are in flight for other videos: the calls run concurrently and
\* their cache keys differ.
Apart(c, v) ==
    \E d \in Contexts \ {c} : req[d].pc # "idle" /\ req[d].video_file # v

\* The call itself: Python binds the arguments to the parameters.
translate_file_call(c) ==
    /\ req[c].pc = "idle"
    /\ \E caller \in Callers :
          IF Binds(caller)
          THEN \E v \in Videos :
                  req' = [d \in Contexts |->
                            IF d = c
                            THEN [IdleCall EXCEPT !.pc = "resolve", !.caller = caller,
                                                  !.video_file = v, !.result = Pending,
                                                  !.apart = Apart(c, v)]
                            ELSE [req[d] EXCEPT !.apart = @ \/ Apart(c, v)]]
          ELSE req' = [req EXCEPT ![c] =
                         [IdleCall EXCEPT !.caller = caller, !.result = TypeError]]
    /\ UNCHANGED <<cacheDir, tempDir>>
    /\ UNCHANGED <<pool, split, pure>>

\* Lines 393-414: the target language, the filter flags, the file names.
\* The arguments target_lang and filter_flags are read here first.
resolve_language(c) ==
    /\ req[c].pc = "resolve"
    /\ \E target_lang \in TargetLangs, filter_flags \in InitFlags,
          data \in SubtitleLangSettings, ui \in UiLanguageSettings,
          settings \in AddonSettings :
          LET auto == target_lang = "auto"
              target == IF auto THEN get_preferred_subtitle_lang(data, ui)
                        ELSE target_lang
              seen == IF auto /\ data \in NoSubtitles THEN data ELSE "-"
              me == [req[c] EXCEPT !.pref = seen]
          IN  IF target = "raise"
              THEN Return(c, None, "setting", me)
              ELSE IF target = "None"
              THEN Return(c, None, "skipped", me)
              ELSE IF LanguageId(target) = "UnknownLanguage"
              THEN Return(c, None, "language", me)
              ELSE req' = [req EXCEPT ![c].pc = "check", ![c].pref = seen,
                                      ![c].target_lang = LanguageId(target),
                                      ![c].filter_flags =
                                          get_filter_flags(filter_flags, settings)]
    /\ UNCHANGED <<cacheDir, tempDir>>
    /\ UNCHANGED <<pool, split, pure>>

\* cache_file_name and kodi_file_name of a call that has resolved its
\* language.
CacheFileOf(c) ==
    CacheFileName(req[c].video_file, req[c].filter_flags, req[c].target_lang)
KodiFileOf(c) == KodiFileName(req[c].target_lang)

\* A faulty variant of the cache check: the cache file is never found.
cache_check_always_misses(c) ==
    /\ req[c].pc = "check"
    /\ req' = [req EXCEPT ![c].pc = "prepare"]
    /\ UNCHANGED <<cacheDir, tempDir>>
    /\ UNCHANGED <<pool, split, pure>>

\* Line 415: the cache check.
cache_check(c) ==
    /\ req[c].pc = "check"
    /\ IF IsFile(cacheDir, CacheFileOf(c))
       THEN req' = [req EXCEPT ![c].pc = "copy", ![c].hit = TRUE]
       ELSE req' = [req EXCEPT ![c].pc = "prepare"]
    /\ UNCHANGED <<cacheDir, tempDir>>
    /\ UNCHANGED <<pool, split, pure>>

\* A faulty variant of the cache hit: the cached file is copied, but the
\* call goes on to translate the source instead of returning.
cache_copy_without_return(c) ==
    /\ req[c].pc = "copy"
    /\ IF ~IsFile(cacheDir, CacheFileOf(c))
       THEN Caught(c, "copy") /\ UNCHANGED tempDir
       ELSE /\ tempDir' = Put(tempDir, KodiFileOf(c), cacheDir[CacheFileOf(c)])
            /\ req' = [req EXCEPT ![c].pc = "prepare", ![c].wroteTemp = TRUE]
    /\ UNCHANGED cacheDir
    /\ UNCHANGED <<pool, split, pure>>

\* Lines 417-418: shutil.copy of the cached file to the delivery path.  It
\* raises when the cached file is gone or on an I/O error, which may leave
\* the destination truncated.
cache_copy(c) ==
    /\ req[c].pc = "copy"
    /\ IF ~IsFile(cacheDir, CacheFileOf(c))
       THEN Caught(c, "copy") /\ UNCHANGED tempDir
       ELSE \/ /\ tempDir' = Put(tempDir, KodiFileOf(c), cacheDir[CacheFileOf(c)])
               /\ Return(c, KodiFileOf(c), "-", [req[c] EXCEPT !.wroteTemp = TRUE])
            \/ /\ Caught(c, "copy")
               /\ \/ UNCHANGED tempDir
                  \/ tempDir' = Put(tempDir, KodiFileOf(c), EmptyFile)
    /\ UNCHANGED cacheDir
    /\ UNCHANGED <<pool, split, pure>>

\* Lines 423-429: read the source, convert it when it is no srt, filter it
\* and save the filtered text.  file_type is read here only.
prepare_source(c) ==
    /\ req[c].pc = "prepare"
    /\ \E file_type \in FileTypes :
          \/ /\ file_type \in {"srt", "vtt", "ttml"}
             /\ req' = [req EXCEPT ![c].pc = "merge", ![c].readSrc = TRUE]
          \/ \E stage \in {"read", "convert", "filter"} :
                /\ stage = "convert" => file_type # "srt"
                /\ stage = "filter" => file_type \in {"srt", "vtt", "ttml"}
                /\ Return(c, None, stage, [req[c] EXCEPT !.readSrc = TRUE])
    /\ UNCHANGED <<cacheDir, tempDir>>
    /\ UNCHANGED <<pool, split, pure>>

\* Lines 431-435: parse the document, merge it into sentences and save the
\* merged text.
merge_document(c) ==
    /\ req[c].pc = "merge"
    /\ \/ req' = [req EXCEPT ![c].pc = "translate"]
       \/ Caught(c, "merge")
    /\ UNCHANGED <<cacheDir, tempDir>>
    /\ UNCHANGED <<pool, split, pure>>

\* Lines 437-442: translate the merged text, save it, and stop when it is
\* empty.  split_doc may find no position to split, before any request.
translate_document(c) ==
    /\ req[c].pc = "translate"
    /\ \/ Caught(c, "split")
       \/ \E n \in 1..MaxChunks : \E outs \in [1..n -> ChunkOutcomes] :
             LET new_txt == JoinResults(outs)
             IN  CASE new_txt = "raise" ->
                        Return(c, None, "translate", [req[c] EXCEPT !.sent = TRUE])
                   [] new_txt = "" ->
                        Return(c, None, "empty",
                               [req[c] EXCEPT !.sent = TRUE, !.new_txt = ""])
                   [] OTHER ->
                        req' = [req EXCEPT ![c].pc = "apply", ![c].sent = TRUE,
                                           ![c].new_txt = "text"]
    /\ UNCHANGED <<cacheDir, tempDir>>
    /\ UNCHANGED <<pool, split, pure>>

\* Lines 444-445: spread the translated text over the document and
\* serialize it.
apply_translation(c) ==
    /\ req[c].pc = "apply"
    /\ \/ req' = [req EXCEPT ![c].pc = "cache_open"]
       \/ Caught(c, "apply")
    /\ UNCHANGED <<cacheDir, tempDir>>
    /\ UNCHANGED <<pool, split, pure>>

\* Line 446: open(cache_file_name, 'w') creates the file or truncates it.
cache_open(c) ==
    /\ req[c].pc = "cache_open"
    /\ \/ /\ cacheDir' = Put(cacheDir, CacheFileOf(c), EmptyFile)
          /\ req' = [req EXCEPT ![c].pc = "cache_write", ![c].wroteCache = TRUE]
       \/ Caught(c, "cache") /\ UNCHANGED cacheDir
    /\ UNCHANGED tempDir
    /\ UNCHANGED <<pool, split, pure>>

\* translated_srt of a call.
Translated(c) == Translation(FilePath(c), req[c].target_lang, req[c].filter_flags)

\* Line 447: write the serialized translation and close the file.  A file
\* unlinked since it was opened stays unlinked.
cache_write(c) ==
    /\ req[c].pc = "cache_write"
    /\ \/ /\ cacheDir' = IF IsFile(cacheDir, CacheFileOf(c))
                         THEN Put(cacheDir, CacheFileOf(c), Translated(c))
                         ELSE cacheDir
          /\ req' = [req EXCEPT ![c].pc = "deliver_open"]
       \/ Caught(c, "cache") /\ UNCHANGED cacheDir
    /\ UNCHANGED tempDir
    /\ UNCHANGED <<pool, split, pure>>

\* Line 450: open(kodi_file_name, 'w').
deliver_open(c) ==
    /\ req[c].pc = "deliver_open"
    /\ \/ /\ tempDir' = Put(tempDir, KodiFileOf(c), EmptyFile)
          /\ req' = [req EXCEPT ![c].pc = "deliver_write", ![c].wroteTemp = TRUE]
       \/ Caught(c, "deliver") /\ UNCHANGED tempDir
    /\ UNCHANGED cacheDir
    /\ UNCHANGED <<pool, split, pure>>

\* Lines 451-452: write the delivery file and return its path.
deliver_write(c) ==
    /\ req[c].pc = "deliver_write"
    /\ \/ /\ tempDir' = Put(tempDir, KodiFileOf(c), Translated(c))
          /\ Return(c, KodiFileOf(c), "-", req[c])
       \/ Caught(c, "deliver") /\ UNCHANGED tempDir
    /\ UNCHANGED cacheDir
    /\ UNCHANGED <<pool, split, pure>>

\* cleanup_cached_files: the sweep removes the regular files whose change
\* time is older than the expiry time; expired is the set of those.
cleanup_cached_files(expired) ==
    /\ expired # {}
    /\ expired \subseteq DOMAIN cacheDir
    /\ cacheDir' = Remove(cacheDir, expired)
    /\ UNCHANGED <<req, tempDir>>
    /\ UNCHANGED <<pool, split, pure>>

Next ==
    \/ \E c \in Contexts : translate_file_call(c)
    \/ \E c \in Contexts : resolve_language(c)
    \/ \E c \in Contexts : cache_check(c)
    \/ \E c \in Contexts : cache_copy(c)
    \/ \E c \in Contexts : prepare_source(c)
    \/ \E c \in Contexts : merge_document(c)
    \/ \E c \in Contexts : translate_document(c)
    \/ \E c \in Contexts : apply_translation(c)
    \/ \E c \in Contexts : cache_open(c)
    \/ \E c \in Contexts : cache_write(c)
    \/ \E c \in Contexts : deliver_open(c)
    \/ \E c \in Contexts : deliver_write(c)
    \/ \E expired \in SUBSET DOMAIN cacheDir : cleanup_cached_files(expired)

Spec == Init /\ [][Next]_vars

(***************************************************************************)
(* Properties of translate_file under concurrent calls and cleanup.        *)
(***************************************************************************)
\* What a call returns when it delivers a file: a path.
IsPath(value) == value \notin {NotCalled, Pending, None, TypeError}

\* C1: no call of translate_file made by the host (the service's player
\* monitor, the manual translation) ends with an exception at its caller.
C1_NoExceptionReachesHost ==
    \A c \in Contexts :
        req[c].caller \in {"service", "manual"} => req[c].result # TypeError

\* C2: a call that found its cache file reads no source, sends no request
\* and writes no cache file; it copies the cached file to the delivery path
\* and, the copy done, returns that path.
C2_CacheHitShortCircuits ==
    \A c \in Contexts :
        req[c].hit =>
            /\ req[c].pc \in {"copy", "idle"}
            /\ ~req[c].readSrc /\ ~req[c].sent /\ ~req[c].wroteCache
            /\ req[c].pc = "idle" =>
                  \/ /\ req[c].failed = "-"
                     /\ req[c].result = KodiFileOf(c)
                     /\ req[c].wroteTemp
                     /\ IsFile(tempDir, KodiFileOf(c))
                  \/ req[c].failed = "copy" /\ req[c].result = None

\* A call hit the cache and returned the delivery path, where the cached
\* translation now is.
C2_Witness ==
    \E c \in Contexts :
        /\ req[c].hit /\ req[c].pc = "idle" /\ req[c].result = KodiFileOf(c)
        /\ IsFile(tempDir, req[c].result)
        /\ \E d \in Contexts : tempDir[req[c].result] = Translated(d)

\* C6: of two concurrent calls with different cache keys, each returns a
\* path whose file holds the translation of its own document.
C6_OwnTranslationDelivered ==
    \A c \in Contexts : \A d \in Contexts \ {c} :
        ( /\ req[c].apart /\ req[d].apart
          /\ req[c].pc = "idle" /\ ~req[c].hit /\ IsPath(req[c].result) )
        => tempDir[req[c].result] = Translated(c)

\* C7: with target_lang 'auto' and the setting 'none', 'forced_only' or
\* 'original' the call returns None and has read no source, sent no
\* request and opened neither a cache nor a delivery file.
C7_NoSubtitlesSkips ==
    \A c \in Contexts :
        req[c].pref \in NoSubtitles =>
            /\ req[c].pc = "idle" /\ req[c].result = None
            /\ req[c].failed = "skipped"
            /\ ~req[c].hit /\ ~req[c].readSrc /\ ~req[c].sent
            /\ ~req[c].wroteCache /\ ~req[c].wroteTemp

\* A call skipped for the setting 'original', while the cache holds the
\* translation it would have used.
C7_Witness ==
    \E c \in Contexts :
        /\ req[c].pref = "original" /\ req[c].result = None
        /\ cacheDir # <<>>

\* C9: a call whose copy of the cached file failed does not end without a
\* result before it has read the source subtitles.
C9_CopyFailureFallsThrough ==
    \A c \in Contexts :
        (req[c].hit /\ req[c].pc = "idle" /\ req[c].failed = "copy")
        => req[c].readSrc

(***************************************************************************)
(* Calls in sequence: a call of translate_file or of cleanup_cached_files  *)
(* starts when no call of translate_file is in flight.                     *)
(***************************************************************************)
Quiet == \A c \in Contexts : req[c].pc = "idle"

NextSeq ==
    \/ \E c \in Contexts : Quiet /\ translate_file_call(c)
    \/ \E c \in Contexts : resolve_language(c)
    \/ \E c \in Contexts : cache_check(c)
    \/ \E c \in Contexts : cache_copy(c)
    \/ \E c \in Contexts : prepare_source(c)
    \/ \E c \in Contexts : merge_document(c)
    \/ \E c \in Contexts : translate_document(c)
    \/ \E c \in Contexts : apply_translation(c)
    \/ \E c \in Contexts : cache_open(c)
    \/ \E c \in Contexts : cache_write(c)
    \/ \E c \in Contexts : deliver_open(c)
    \/ \E c \in Contexts : deliver_write(c)
    \/ \E expired \in SUBSET DOMAIN cacheDir :
          Quiet /\ cleanup_cached_files(expired)

SpecSeq == Init /\ [][NextSeq]_vars

Raised == <<"raise">>

\* The stripped translation the service gave for chunk i.
ChunkTranslation(i) == <<ToString(i)>>

\* What a finished task holds as text.
ResultText(p, i) == IF p.result[i] = "text" THEN ChunkTranslation(i) ELSE <<>>

\* A faulty variant: the results are joined as the tasks complete.
CompletionOrder(p) == p.finished

\* for r in res: the futures in the order of their submission.
JoinOrder(p) == [i \in 1..p.n |-> i]

\* '\n'.join(texts)
RECURSIVE JoinLines(_)
JoinLines(texts) ==
    IF Len(texts) = 0 THEN <<>>
    ELSE IF Len(texts) = 1 THEN texts[1]
    ELSE texts[1] \o <<"\n">> \o JoinLines(Tail(texts))

\* Line 353.  The substitutions of lines 355-357 change no token.
JoinedResults(p) ==
    LET order == JoinOrder(p)
    IN  IF JoinResults(p.result) = "raise"
        THEN Raised
        ELSE JoinLines([k \in 1..Len(order) |-> ResultText(p, order[k])])

InitText ==
    /\ req = [c \in Contexts |-> IdleCall]
    /\ cacheDir = <<>>
    /\ tempDir = <<>>
    /\ pool = NoPool
    /\ split = NoSplit
    /\ pure = NoCall

\* Lines 349-351: split the text and submit a task for every chunk.
\* split_doc may raise before any task is submitted.
translate_text_call ==
    /\ pool.pc \in {"idle", "done"}
    /\ \/ pool' = [NoPool EXCEPT !.pc = "done", !.returned = Raised]
       \/ \E n \in 1..MaxChunks :
             pool' = [NoPool EXCEPT !.pc = "wait", !.n = n,
                                    !.status = [i \in 1..n |-> "queued"],
                                    !.result = [i \in 1..n |-> "-"]]
    /\ UNCHANGED <<req, cacheDir, tempDir, split, pure>>

\* A worker takes the oldest queued task.
worker_start(i) ==
    /\ pool.pc = "wait"
    /\ pool.status[i] = "queued"
    /\ \A j \in 1..(i - 1) : pool.status[j] # "queued"
    /\ pool' = [pool EXCEPT !.status[i] = "running"]
    /\ UNCHANGED <<req, cacheDir, tempDir, split, pure>>

\* send_translate (lines 340-347) ends: with the stripped translation,
\* with None after NoResult, or with another exception.
worker_finish(i) ==
    /\ pool.pc = "wait"
    /\ pool.status[i] = "running"
    /\ \E outcome \in ChunkOutcomes :
          pool' = [pool EXCEPT !.status[i] = "done", !.result[i] = outcome,
                               !.finished = Append(@, i)]
    /\ UNCHANGED <<req, cacheDir, tempDir, split, pure>>

\* Line 351: futures.wait(res) returns when every task is done.
wait_returns ==
    /\ pool.pc = "wait"
    /\ \A i \in 1..pool.n : pool.status[i] = "done"
    /\ pool' = [pool EXCEPT !.pc = "join"]
    /\ UNCHANGED <<req, cacheDir, tempDir, split, pure>>

\* Lines 353-358: join the results and return the text.
join_results ==
    /\ pool.pc = "join"
    /\ pool' = [pool EXCEPT !.pc = "done", !.returned = JoinedResults(pool)]
    /\ UNCHANGED <<req, cacheDir, tempDir, split, pure>>

NextText ==
    \/ translate_text_call
    \/ \E i \in 1..pool.n : worker_start(i)
    \/ \E i \in 1..pool.n : worker_finish(i)
    \/ wait_returns
    \/ join_results

SpecText == InitText /\ [][NextText]_vars

\* The text of the chunks in their original order, a chunk without a
\* translation counting as the empty string.
InOriginalOrder(p) == JoinLines([i \in 1..p.n |-> ResultText(p, i)])

\* C3: when a chunk's request yields no result and no request raises
\* another error, translate_text returns the other chunks' translations
\* with the empty string in the place of that chunk.
C3_NoResultIsEmptyString ==
    ( /\ pool.pc = "done" /\ pool.n > 0
      /\ \E i \in 1..pool.n : pool.result[i] = "None"
      /\ \A i \in 1..pool.n : pool.result[i] # "raise" )
    => pool.returned = InOriginalOrder(pool)

\* C4: the results are joined only when every task is done, and the text
\* returned holds the chunks' translations in the chunks' order, whatever
\* the order in which the tasks completed.
C4_JoinedInChunkOrder ==
    /\ pool.pc = "join" => \A i \in 1..pool.n : pool.status[i] = "done"
    /\ ( /\ pool.pc = "done" /\ pool.n > 0
         /\ \A i \in 1..pool.n : pool.result[i] \in {"text", ""} )
       => pool.returned = InOriginalOrder(pool)

\* The second chunk's task completed before the first one's and the text
\* returned has the first chunk's translation first.
C4_Witness ==
    /\ pool.pc = "done" /\ pool.n >= 2
    /\ pool.finished[1] = 2 /\ pool.finished[2] = 1
    /\ pool.result[1] = "text" /\ pool.result[2] = "text"
    /\ pool.returned = InOriginalOrder(pool)
    /\ SubSeq(pool.returned, 1, 3) =
          ChunkTranslation(1) \o <<"\n">> \o ChunkTranslation(2)

(***************************************************************************)
(* split_doc (translate.py lines 309-330).  A text is a sequence of        *)
(* characters; positions are Python's, counted from 0.                     *)
(***************************************************************************)
NL == "\n"
Chars == {NL, "a"}
Texts == UNION {[1..k -> Chars] : k \in 0..MaxLen}

\* src_txt[from:to]
Slice(src_txt, from, to) == SubSeq(src_txt, from + 1, to)

\* src_txt.rfind(ch, start, end): the highest position p with
\* start <= p < end that holds ch, or -1.
RFind(src_txt, ch, start, end) ==
    LET last == IF end < Len(src_txt) THEN end ELSE Len(src_txt)
        found == {p \in start..(last - 1) : src_txt[p + 1] = ch}
    IN  IF found = {} THEN -1 ELSE CHOOSE p \in found : \A q \in found : q <= p

ValueError == <<"ValueError">>

\* A faulty variant of the loop: it stops one character late, so the last
\* chunk may hold max_len + 1 characters.
RECURSIVE SplitFromStopsLate(_, _, _, _)
SplitFromStopsLate(src_txt, max_len, start_pos, splits) ==
    IF Len(src_txt) - start_pos > max_len + 1
    THEN LET split_pos == RFind(src_txt, NL, start_pos, start_pos + max_len)
         IN  IF split_pos <= start_pos
             THEN ValueError
             ELSE SplitFromStopsLate(src_txt, max_len, split_pos,
                            Append(splits, Slice(src_txt, start_pos, split_pos)))
    ELSE Append(splits, Slice(src_txt, start_pos, Len(src_txt)))

\* The while loop of split_doc from start_pos on, splits being the chunks
\* found so far.
RECURSIVE SplitFrom(_, _, _, _)
SplitFrom(src_txt, max_len, start_pos, splits) ==
    IF Len(src_txt) - start_pos > max_len
    THEN LET split_pos == RFind(src_txt, NL, start_pos, start_pos + max_len)
         IN  IF split_pos <= start_pos
             THEN ValueError
             ELSE SplitFrom(src_txt, max_len, split_pos,
                            Append(splits, Slice(src_txt, start_pos, split_pos)))
    ELSE Append(splits, Slice(src_txt, start_pos, Len(src_txt)))

split_doc(src_txt, max_len) == SplitFrom(src_txt, max_len, 0, <<>>)

\* The values start_pos takes in the loop of split_doc of which the text
\* left is longer than max_len: the positions at which a cut is due.
RECURSIVE CutStarts(_, _, _)
CutStarts(src_txt, max_len, start_pos) ==
    IF Len(src_txt) - start_pos > max_len
    THEN LET split_pos == RFind(src_txt, NL, start_pos, start_pos + max_len)
         IN  {start_pos} \cup (IF split_pos <= start_pos THEN {}
                               ELSE CutStarts(src_txt, max_len, split_pos))
    ELSE {}

\* "".join(chunks)
RECURSIVE Concat(_)
Concat(chunks) ==
    IF chunks = <<>> THEN <<>> ELSE Head(chunks) \o Concat(Tail(chunks))

InitSplit ==
    /\ req = [c \in Contexts |-> IdleCall]
    /\ cacheDir = <<>>
    /\ tempDir = <<>>
    /\ pool = NoPool
    /\ \E src_txt \in Texts, max_len \in 1..MaxLen :
          split = [NoSplit EXCEPT !.src_txt = src_txt, !.max_len = max_len]
    /\ pure = NoCall

split_doc_call ==
    /\ split.pc = "idle"
    /\ split' = [split EXCEPT !.pc = "done",
                              !.out = split_doc(split.src_txt, split.max_len)]
    /\ UNCHANGED <<req, cacheDir, tempDir, pool, pure>>

NextSplit == split_doc_call

SpecSplit == InitSplit /\ [][NextSplit]_vars

\* Every run of max_len characters of src_txt holds a newline.
EveryWindowHasNewline(src_txt, max_len) ==
    \A p \in 0..(Len(src_txt) - max_len) :
        \E q \in p..(p + max_len - 1) : src_txt[q + 1] = NL

\* split_doc returned the chunks.
Returned == split.pc = "done" /\ split.out # ValueError

\* C11: when split_doc returns more than one chunk, every chunk but the
\* first begins with the two newlines of a block boundary.
C11_ChunksBeginWithBlankLine ==
    (Returned /\ Len(split.out) > 1) =>
        \A i \in 2..Len(split.out) :
            /\ Len(split.out[i]) >= 2
            /\ split.out[i][1] = NL /\ split.out[i][2] = NL

\* A newline at which the text can be cut after start_pos: one behind
\* start_pos and at or before start_pos + max_len.
NewlineInRange(src_txt, max_len, start_pos) ==
    \E p \in (start_pos + 1)..(start_pos + max_len) :
        p < Len(src_txt) /\ src_txt[p + 1] = NL

\* C12: split_doc raises ValueError exactly when at some cut there is no
\* newline between the current start and start + max_len; otherwise it
\* returns the chunks.
C12_RaisesExactlyWithoutNewline ==
    split.pc = "done" =>
        ( split.out = ValueError
          <=> \E start_pos \in CutStarts(split.src_txt, split.max_len, 0) :
                 ~NewlineInRange(split.src_txt, split.max_len, start_pos) )

\* C13: every chunk split_doc returns has at most max_len characters.
C13_ChunksWithinMaxLen ==
    Returned => \A i \in 1..Len(split.out) : Len(split.out[i]) <= split.max_len

\* A text cut into several chunks, the last of them of max_len characters.
C13_Witness ==
    /\ Returned /\ Len(split.out) >= 2
    /\ Len(split.out[Len(split.out)]) = split.max_len
    /\ Len(split.src_txt) > split.max_len

\* C10: for a non-empty text with a newline in every window of max_len
\* characters, split_doc returns chunks whose concatenation is the text.
C10_ChunksConcatenateToText ==
    ( /\ split.pc = "done"
      /\ Len(split.src_txt) > 0 /\ split.max_len >= 1
      /\ EveryWindowHasNewline(split.src_txt, split.max_len) )
    => /\ split.out # ValueError
       /\ Concat(split.out) = split.src_txt

(***************************************************************************)
(* filter_doc (translate.py lines 198-238).  The patterns are matched as   *)
(* re.sub matches them: from left to right, each match replaced, the       *)
(* search going on behind the match.  Positions count from 0.              *)
(***************************************************************************)
\* The characters of the texts filtered here: a newline, a space, an upper
\* case and a lower case letter, the brackets and the hashtag.
FilterChars == {NL, " ", "A", "a", "(", ")", "#"}
FilterTexts == UNION {[1..k -> FilterChars] : k \in 0..MaxFilterLen}
\* The flags a caller passes: every combination of the three text filters,
\* and the colour flag alone.
FilterFlags == 0..(FILTER_BRACKETS + FILTER_CAPS + FILTER_HASHTAGS) \cup {FILTER_COLOURS}

\* filter_flags & bit, for a bit that is a power of two
HasFlag(filter_flags, bit) == (filter_flags \div bit) % 2 = 1

\* \w and its complement \W
IsWordChar(ch) == ch \in {"A", "a"}
\* [A-Z :,]
IsCapsChar(ch) == ch \in {"A", " "}
\* ^ and $ under re.MULTILINE
AtLineStart(txt, p) == p = 0 \/ txt[p] = NL
AtLineEnd(txt, p) == p = Len(txt) \/ txt[p + 1] = NL

\* The least member of a non-empty set of positions.
Least(ps) == CHOOSE p \in ps : \A q \in ps : p <= q

\* (\([^)]*\)(?:$|\W?)) at position p: the end of the match, or -1.
BracketsEnd(txt, p) ==
    LET closing == {q \in (p + 1)..(Len(txt) - 1) : txt[q + 1] = ")"}
        e == Least(closing) + 1
    IN  IF txt[p + 1] # "(" \/ closing = {} THEN -1
        ELSE IF AtLineEnd(txt, e) THEN e
        ELSE IF ~IsWordChar(txt[e + 1]) THEN e + 1
        ELSE e

\* (^[A-Z :,]{3,}$) at position p
CapsEnd(txt, p) ==
    LET ends == {e \in (p + 3)..Len(txt) :
                    /\ \A q \in p..(e - 1) : IsCapsChar(txt[q + 1])
                    /\ AtLineEnd(txt, e)}
    IN  IF AtLineStart(txt, p) /\ ends # {} THEN Least(ends) ELSE -1

\* (^#+.*?#$) at position p, the dot matching a newline too (re.S): all the
\* leading hashtags first, then the nearest hashtag that ends a line; when
\* there is none, the last of the leading hashtags if it ends a line.
HashtagsEnd(txt, p) ==
    LET lead == {k \in 1..(Len(txt) - p) :
                    \A q \in p..(p + k - 1) : txt[q + 1] = "#"}
        k == Cardinality(lead)
        closing == {e \in (p + k)..(Len(txt) - 1) :
                       txt[e + 1] = "#" /\ AtLineEnd(txt, e + 1)}
    IN  IF ~AtLineStart(txt, p) \/ lead = {} THEN -1
        ELSE IF closing # {} THEN Least(closing) + 1
        ELSE IF k >= 2 /\ AtLineEnd(txt, p + k) THEN p + k
        ELSE -1

\* The joined pattern at position p: the alternatives in the order in which
\* filter_doc appends them.
PatternEnd(txt, p, filter_flags) ==
    IF HasFlag(filter_flags, FILTER_BRACKETS) /\ BracketsEnd(txt, p) # -1
    THEN BracketsEnd(txt, p)
    ELSE IF HasFlag(filter_flags, FILTER_CAPS) /\ CapsEnd(txt, p) # -1
    THEN CapsEnd(txt, p)
    ELSE IF HasFlag(filter_flags, FILTER_HASHTAGS) /\ HashtagsEnd(txt, p) # -1
    THEN HashtagsEnd(txt, p)
    ELSE -1

\* (^\W+?$) at position p: the shortest run of non-word characters from a
\* line start to a line end.
CleanupEnd(txt, p) ==
    LET ends == {e \in (p + 1)..Len(txt) :
                    /\ \A q \in p..(e - 1) : ~IsWordChar(txt[q + 1])
                    /\ AtLineEnd(txt, e)}
    IN  IF AtLineStart(txt, p) /\ ends # {} THEN Least(ends) ELSE -1

\* A faulty variant: a match is removed.
ReplacedWithNothing == <<>>

\* What a match is replaced with.
Replacement == <<" ">>

\* re.sub(pattern, ' ', txt) from position p on
RECURSIVE SubPattern(_, _, _)
SubPattern(txt, p, filter_flags) ==
    IF p >= Len(txt) THEN <<>>
    ELSE LET e == PatternEnd(txt, p, filter_flags)
         IN  IF e # -1 THEN Replacement \o SubPattern(txt, e, filter_flags)
             ELSE <<txt[p + 1]>> \o SubPattern(txt, p + 1, filter_flags)

\* re.sub(r'(^\W+?$)', ' ', txt) from position p on
RECURSIVE SubCleanup(_, _)
SubCleanup(txt, p) ==
    IF p >= Len(txt) THEN <<>>
    ELSE LET e == CleanupEnd(txt, p)
         IN  IF e # -1 THEN Replacement \o SubCleanup(txt, e)
             ELSE <<txt[p + 1]>> \o SubCleanup(txt, p + 1)

filter_doc(srt_txt, filter_flags) ==
    IF filter_flags = 0 THEN srt_txt
    ELSE IF \/ HasFlag(filter_flags, FILTER_BRACKETS)
            \/ HasFlag(filter_flags, FILTER_CAPS)
            \/ HasFlag(filter_flags, FILTER_HASHTAGS)
    THEN SubCleanup(SubPattern(srt_txt, 0, filter_flags), 0)
    ELSE srt_txt

\* No call of filter_doc yet.
NoFilter ==
    [pc |-> "idle", srt_txt |-> <<>>, filter_flags |-> 0, filtered |-> <<>>,
     again |-> <<>>]

InitFilter ==
    /\ req = [c \in Contexts |-> IdleCall]
    /\ cacheDir = <<>>
    /\ tempDir = <<>>
    /\ pool = NoPool
    /\ split = NoSplit
    /\ pure = NoFilter

\* filter_doc(srt_txt, filter_flags)
filter_doc_call ==
    /\ pure.pc = "idle"
    /\ \E srt_txt \in FilterTexts, filter_flags \in FilterFlags :
          pure' = [NoFilter EXCEPT !.pc = "filtered", !.srt_txt = srt_txt,
                                   !.filter_flags = filter_flags,
                                   !.filtered = filter_doc(srt_txt, filter_flags)]
    /\ UNCHANGED <<req, cacheDir, tempDir, pool, split>>

\* filter_doc of the filtered text, with the same flags
filter_doc_again ==
    /\ pure.pc = "filtered"
    /\ pure' = [pure EXCEPT !.pc = "again",
                            !.again = filter_doc(pure.filtered, pure.filter_flags)]
    /\ UNCHANGED <<req, cacheDir, tempDir, pool, split>>

NextFilter ==
    \/ filter_doc_call
    \/ filter_doc_again

SpecFilter == InitFilter /\ [][NextFilter]_vars

\* The number of blocks srt_txt.split('\n\n') gives from position p on.
RECURSIVE BlockCount(_, _)
BlockCount(txt, p) ==
    IF p + 2 > Len(txt) THEN 1
    ELSE IF txt[p + 1] = NL /\ txt[p + 2] = NL THEN 1 + BlockCount(txt, p + 2)
    ELSE BlockCount(txt, p + 1)

\* The three text filters in any combination.
TextFilters == 0..(FILTER_BRACKETS + FILTER_CAPS + FILTER_HASHTAGS)

\* C14: filter_doc is idempotent for every combination of the flags
\* BRACKETS, CAPS and HASHTAGS.
C14_FilterIdempotent ==
    (pure.pc = "again" /\ pure.filter_flags \in TextFilters)
    => pure.again = pure.filtered

\* C15 as stated: the filtered text splits on the blank-line delimiter into
\* as many blocks as the text.
C15_DelimitersUnchanged ==
    pure.pc = "filtered"
    => BlockCount(pure.filtered, 0) = BlockCount(pure.srt_txt, 0)

\* C15 amended: filter_doc introduces no blank-line delimiter; the filtered
\* text splits into at most as many blocks as the text.
C15_NoDelimiterIntroduced ==
    pure.pc = "filtered"
    => BlockCount(pure.filtered, 0) <= BlockCount(pure.srt_txt, 0)

\* A bracketed sound alone on the line between two newlines is replaced and
\* the two newlines stay apart.
C15_Witness ==
    /\ pure.pc = "filtered"
    /\ pure.filter_flags = FILTER_BRACKETS
    /\ pure.srt_txt = <<NL, "(", ")", NL>>
    /\ pure.filtered # pure.srt_txt
    /\ BlockCount(pure.filtered, 0) = 1

\* ---------------------------------------------------------------------
\* merge.py: sentences over the fragments of a document.
\*
\* A fragment (SrtFrase) holds a text that can be read and assigned; a
\* document hands out its fragments in document order (frases()).  The
\* serialised document is a function of the fragment texts, so a document is
\* the sequence of its fragment texts.

\* The texts a fragment of the original document can hold: trimmed, and
\* empty for a fragment that is false.
FraseTexts ==
    {<<>>, <<"a">>, <<"a", " ", "a">>, <<"a", ",">>, <<"a", ".">>}

\* SrtDoc.frases() of the documents with up to MaxFrases fragments.
Docs == UNION {[1..n -> FraseTexts] : n \in 1..MaxFrases}

\* The texts the translation of a sentence can be.
TransTexts == UNION {[1..k -> {"b", " ", ","}] : k \in 0..MaxTextLen}

IsSpace(ch) == ch \in {" ", NL}
IsDigit(ch) == ch \in {"0", "1", "2", "3", "4", "5", "6", "7", "8", "9"}

\* line.find(ch, start): the lowest position p >= start that holds ch, or -1.
Find(line, ch, start) ==
    LET found == {p \in start..(Len(line) - 1) : line[p + 1] = ch}
    IN  IF found = {} THEN -1 ELSE Least(found)

\* line.lstrip()
RECURSIVE LStrip(_)
LStrip(line) ==
    IF line # <<>> /\ IsSpace(Head(line)) THEN LStrip(Tail(line)) ELSE line

\* line.rstrip()
RECURSIVE RStrip(_)
RStrip(line) ==
    IF line # <<>> /\ IsSpace(line[Len(line)])
    THEN RStrip(SubSeq(line, 1, Len(line) - 1))
    ELSE line

\* sep.join(texts)
RECURSIVE Join(_, _)
Join(sep, texts) ==
    IF Len(texts) = 0 THEN <<>>
    ELSE IF Len(texts) = 1 THEN texts[1]
    ELSE texts[1] \o sep \o Join(sep, Tail(texts))

\* The lines iterating io.StringIO(value) yields, each with its line end.
RECURSIVE Lines(_)
Lines(value) ==
    IF value = <<>> THEN <<>>
    ELSE LET p == Find(value, NL, 0)
         IN  IF p = -1 THEN <<value>>
             ELSE <<Slice(value, 0, p + 1)>> \o Lines(Slice(value, p + 1, Len(value)))

\* int(line) does not raise ValueError.
IsInt(line) ==
    LET digits == LStrip(line)
    IN  digits # <<>> /\ \A i \in 1..Len(digits) : IsDigit(digits[i])

\* str(idx), the key of a sentence in the sentence map.
Key(idx) == <<ToString(idx)>>

\* _split_on_word(line, pos): <<part, remainder>>.
split_on_word(line, pos) ==
    LET before == RFind(line, " ", 0, pos + 1)
        pos_before == IF before = -1 THEN 0 ELSE before
        after == Find(line, " ", pos)
        pos_after == IF after = -1 THEN Len(line) ELSE after
    IN  IF pos_before # 0 /\ pos - pos_before < pos_after - pos
        THEN <<Slice(line, 0, pos_before), Slice(line, pos_before + 1, Len(line))>>
        ELSE <<Slice(line, 0, pos_after), Slice(line, pos_after + 1, Len(line))>>

\* A faulty variant: the occurrence behind split_idx is tried first.
split_line_on_character_forward(line, split_char, split_idx) ==
    LET before == RFind(line, split_char, 0, split_idx)
        after == Find(line, split_char, split_idx)
        Cut(char_pos) ==
            <<Slice(line, 0, char_pos + 1),
              LStrip(Slice(line, char_pos + 1, Len(line)))>>
    IN  IF 0 < after /\ 2 * after < 3 * split_idx THEN Cut(after)
        ELSE IF 2 * before >= split_idx THEN Cut(before)
        ELSE <<<<>>, line>>

\* _split_line_on_character(line, split_char, split_idx) with the default
\* max_deviation of split_idx / 2.
split_line_on_character(line, split_char, split_idx) ==
    LET before == RFind(line, split_char, 0, split_idx)
        after == Find(line, split_char, split_idx)
        Cut(char_pos) ==
            <<Slice(line, 0, char_pos + 1),
              LStrip(Slice(line, char_pos + 1, Len(line)))>>
    IN  IF 2 * before >= split_idx THEN Cut(before)
        ELSE IF 0 < after /\ 2 * after < 3 * split_idx THEN Cut(after)
        ELSE <<<<>>, line>>

\* split_line(srt_frase, new_text, split_idx): <<the fragment's new text,
\* remainder>>; frase_text is the fragment's text before the call, not empty.
split_line(frase_text, new_text, split_idx) ==
    LET last_char == frase_text[Len(frase_text)]
        on_char == split_line_on_character(new_text, last_char, split_idx)
    IN  IF last_char \in {",", ":", ";", "'", "\""} /\ on_char[1] # <<>>
        THEN on_char
        ELSE split_on_word(new_text, split_idx)

\* sum(orig_lengths[i:]), i counted from 1.
RECURSIVE SumFrom(_, _)
SumFrom(orig_lengths, i) ==
    IF i > Len(orig_lengths) THEN 0
    ELSE orig_lengths[i] + SumFrom(orig_lengths, i + 1)

ZeroDivisionError == <<"ZeroDivisionError">>
IndexError == <<"IndexError">>
KeyError == <<"KeyError">>

\* A faulty variant: round(new_len * rel_len), halves to the even number.
split_pos_rounded(new_len, orig_length, rest) ==
    LET floor == (new_len * orig_length) \div rest
        twice == 2 * ((new_len * orig_length) % rest)
    IN  IF twice > rest \/ (twice = rest /\ floor % 2 = 1) THEN floor + 1 ELSE floor

\* Line 38: split_pos = int(new_len * rel_len), where rel_len is
\* orig_length / rest, the length of the fragment over the lengths from it
\* on.  For the lengths that occur here the product of the floating point
\* numbers, cut to an integer, is the integer quotient.
split_pos(new_len, orig_length, rest) == (new_len * orig_length) \div rest

\* The loop of the setter of Sentence.text from the i-th fragment on.  frases
\* are the fragment texts of the document, orig_frases the positions of the
\* sentence's fragments, orig_lengths their lengths when the setter was
\* called.  cuts are the calls of split_line made.
RECURSIVE SpreadFrom(_, _, _, _, _)
SpreadFrom(frases, orig_frases, orig_lengths, i, new_text) ==
    IF i > Len(orig_frases) THEN [frases |-> frases, raised |-> None, cuts |-> <<>>]
    ELSE LET rest == SumFrom(orig_lengths, i)
             frase == orig_frases[i]
         IN  IF orig_lengths[i] = rest
             THEN [frases |-> [frases EXCEPT ![frase] = new_text], raised |-> None,
                   cuts |-> <<>>]
             ELSE IF frases[frase] = <<>>
             THEN [frases |-> frases, raised |-> IndexError, cuts |-> <<>>]
             ELSE LET pos == split_pos(Len(new_text), orig_lengths[i], rest)
                      cut == split_line(frases[frase], new_text, pos)
                      spread == SpreadFrom([frases EXCEPT ![frase] = cut[1]],
                                           orig_frases, orig_lengths, i + 1, cut[2])
                  IN  [spread EXCEPT !.cuts =
                          <<[new_text |-> new_text, orig_length |-> orig_lengths[i],
                             rest |-> rest, split_pos |-> pos,
                             remainder |-> cut[2]]>> \o @]

\* Sentence.text = new_text.  _relative_line_lengths() divides by zero when
\* the sentence's fragments from some fragment on are all empty.
Sentence_text_set(frases, orig_frases, new_text) ==
    IF \E i \in 1..Len(orig_frases) :
           \A j \in i..Len(orig_frases) : frases[orig_frases[j]] = <<>>
    THEN [frases |-> frases, raised |-> ZeroDivisionError, cuts |-> <<>>]
    ELSE SpreadFrom(frases, orig_frases,
                    [i \in 1..Len(orig_frases) |-> Len(frases[orig_frases[i]])],
                    1, new_text)

\* Sentence.text
Sentence_text(frases, orig_frases) ==
    Join(<<" ">>, [i \in 1..Len(orig_frases) |-> frases[orig_frases[i]]])

\* A faulty variant: a comma closes a sentence as well.
RECURSIVE MergeFromComma(_, _, _, _)
MergeFromComma(frases, i, sentences, new_sentence) ==
    IF i > Len(frases) THEN sentences
    ELSE IF frases[i] = <<>>
    THEN MergeFromComma(frases, i + 1, sentences, new_sentence)
    ELSE IF frases[i][Len(frases[i])] \in {".", "!", "?", ","}
    THEN MergeFromComma(frases, i + 1, Append(sentences, Append(new_sentence, i)), <<>>)
    ELSE MergeFromComma(frases, i + 1, sentences, Append(new_sentence, i))

\* MergedDoc._merge_lines() from the i-th fragment on: the sentences closed
\* so far, in the order of their keys, and the sentence being built.
RECURSIVE MergeFrom(_, _, _, _)
MergeFrom(frases, i, sentences, new_sentence) ==
    IF i > Len(frases) THEN sentences
    ELSE IF frases[i] = <<>> THEN MergeFrom(frases, i + 1, sentences, new_sentence)
    ELSE IF frases[i][Len(frases[i])] \in {".", "!", "?"}
    THEN MergeFrom(frases, i + 1, Append(sentences, Append(new_sentence, i)), <<>>)
    ELSE MergeFrom(frases, i + 1, sentences, Append(new_sentence, i))

\* A faulty variant: the fragments behind the last closed sentence are a
\* sentence.
merge_lines_closing_last(frases) ==
    LET sentences == MergeFrom(frases, 1, <<>>, <<>>)
        last == IF sentences = <<>> THEN 0
                ELSE sentences[Len(sentences)][Len(sentences[Len(sentences)])]
        behind == SelectSeq([i \in 1..Len(frases) |-> i],
                            LAMBDA i : i > last /\ frases[i] # <<>>)
    IN  IF behind = <<>> THEN sentences ELSE Append(sentences, behind)

\* MergedDoc._merge_lines()
merge_lines(frases) == MergeFrom(frases, 1, <<>>, <<>>)

\* The lines of MergedDoc.text: each sentence's key, then its text.
RECURSIVE MergedLines(_, _, _)
MergedLines(frases, sentences, idx) ==
    IF idx > Len(sentences) THEN <<>>
    ELSE <<Key(idx), Sentence_text(frases, sentences[idx])>>
         \o MergedLines(frases, sentences, idx + 1)

\* MergedDoc.text
MergedDoc_text(frases, sentences) == JoinLines(MergedLines(frases, sentences, 1))

\* The loop of the setter of MergedDoc.text from the i-th line on.  received
\* holds, for each sentence, the texts assigned to it.
RECURSIVE AssignFrom(_, _, _, _, _)
AssignFrom(frases, sentences, lines, i, received) ==
    IF i > Len(lines)
    THEN [frases |-> frases, raised |-> None, received |-> received]
    ELSE LET line == RStrip(lines[i])
         IN  IF ~IsInt(line)
             THEN AssignFrom(frases, sentences, lines, i + 1, received)
             ELSE IF i + 1 > Len(lines)
             THEN [frases |-> frases, raised |-> None, received |-> received]
             ELSE IF \A idx \in 1..Len(sentences) : Key(idx) # line
             THEN [frases |-> frases, raised |-> KeyError, received |-> received]
             ELSE LET idx == CHOOSE k \in 1..Len(sentences) : Key(k) = line
                      text == RStrip(lines[i + 1])
                      set == Sentence_text_set(frases, sentences[idx], text)
                      got == [received EXCEPT ![idx] = Append(@, text)]
                  IN  IF set.raised # None
                      THEN [frases |-> set.frases, raised |-> set.raised,
                            received |-> got]
                      ELSE AssignFrom(set.frases, sentences, lines, i + 2, got)

\* MergedDoc.text = value
MergedDoc_text_set(frases, sentences, value) ==
    AssignFrom(frases, sentences, Lines(value), 1,
               [idx \in 1..Len(sentences) |-> <<>>])

\* The translation of a text: every letter is replaced, nothing else changes.
Translate(text) == [i \in 1..Len(text) |-> IF text[i] = "a" THEN "b" ELSE text[i]]

\* The responses of the translation service to the merged text: the
\* translation, or the translation with one sentence hurt: one of its two
\* lines missing, a line too many before one of them, or its index line
\* replaced by an index no sentence has.  hurt is that sentence, 0 for none.
Responses(frases, sentences) ==
    LET merged == MergedLines(frases, sentences, 1)
        lines == [i \in 1..Len(merged) |->
                     IF i % 2 = 1 THEN merged[i] ELSE Translate(merged[i])]
        Of(i) == (i + 1) \div 2
        Without(i) == SubSeq(lines, 1, i - 1) \o SubSeq(lines, i + 1, Len(lines))
        WithBefore(i, x) == SubSeq(lines, 1, i - 1) \o <<x>> \o SubSeq(lines, i, Len(lines))
    IN  {[lines |-> lines, hurt |-> 0]}
        \cup {[lines |-> Without(i), hurt |-> Of(i)] : i \in 1..Len(lines)}
        \cup {[lines |-> WithBefore(i, <<"b">>), hurt |-> Of(i)] : i \in 1..Len(lines)}
        \cup {[lines |-> [lines EXCEPT ![2 * k - 1] = <<"9">>], hurt |-> k] :
                  k \in 1..Len(sentences)}

\* No document merged yet.
NoMerge ==
    [pc |-> "idle", op |-> "", orig |-> <<>>, frases |-> <<>>, sentences |-> <<>>,
     idx |-> 0, value |-> <<>>, hurt |-> 0, received |-> <<>>, raised |-> None,
     cuts |-> <<>>, split_idx |-> 0, cut |-> <<>>]

InitMerge ==
    /\ req = [c \in Contexts |-> IdleCall]
    /\ cacheDir = <<>>
    /\ tempDir = <<>>
    /\ pool = NoPool
    /\ split = NoSplit
    /\ pure = NoMerge

\* MergedDoc(srt_doc)
MergedDoc_init ==
    /\ pure.pc = "idle"
    /\ \E frases \in Docs :
          pure' = [NoMerge EXCEPT !.pc = "merged", !.orig = frases,
                                  !.frases = frases,
                                  !.sentences = merge_lines(frases)]
    /\ UNCHANGED <<req, cacheDir, tempDir, pool, split>>

\* merged_doc.text = merged_doc.text
text_round_trip ==
    /\ pure.pc = "merged"
    /\ LET value == MergedDoc_text(pure.frases, pure.sentences)
           set == MergedDoc_text_set(pure.frases, pure.sentences, value)
       IN  pure' = [pure EXCEPT !.pc = "set", !.op = "round trip",
                                !.value = value, !.frases = set.frases,
                                !.received = set.received, !.raised = set.raised]
    /\ UNCHANGED <<req, cacheDir, tempDir, pool, split>>

\* merged_doc.text = the response of the translation service
text_translated ==
    /\ pure.pc = "merged"
    /\ \E response \in Responses(pure.frases, pure.sentences) :
          LET value == Join(<<NL>>, response.lines)
              set == MergedDoc_text_set(pure.frases, pure.sentences, value)
          IN  pure' = [pure EXCEPT !.pc = "set", !.op = "translated",
                                   !.value = value, !.hurt = response.hurt,
                                   !.frases = set.frases,
                                   !.received = set.received,
                                   !.raised = set.raised]
    /\ UNCHANGED <<req, cacheDir, tempDir, pool, split>>

\* sentence.text = new_text for a sentence of the merged document
sentence_text_set ==
    /\ pure.pc = "merged"
    /\ \E idx \in 1..Len(pure.sentences), new_text \in TransTexts :
          LET set == Sentence_text_set(pure.frases, pure.sentences[idx], new_text)
          IN  pure' = [pure EXCEPT !.pc = "set", !.op = "sentence", !.idx = idx,
                                   !.value = new_text, !.frases = set.frases,
                                   !.raised = set.raised, !.cuts = set.cuts]
    /\ UNCHANGED <<req, cacheDir, tempDir, pool, split>>

\* _split_line_on_character(line, ',', split_idx)
split_line_on_character_call ==
    /\ pure.pc = "idle"
    /\ \E line \in TransTexts :
          \E split_idx \in 0..Len(line) :
             pure' = [NoMerge EXCEPT !.pc = "cut", !.op = "character",
                                     !.value = line, !.split_idx = split_idx,
                                     !.cut = split_line_on_character(line, ",", split_idx)]
    /\ UNCHANGED <<req, cacheDir, tempDir, pool, split>>

\* _split_on_word(line, pos)
split_on_word_call ==
    /\ pure.pc = "idle"
    /\ \E line \in TransTexts :
          \E pos \in 0..Len(line) :
             pure' = [NoMerge EXCEPT !.pc = "cut", !.op = "word",
                                     !.value = line, !.split_idx = pos,
                                     !.cut = split_on_word(line, pos)]
    /\ UNCHANGED <<req, cacheDir, tempDir, pool, split>>

NextMerge ==
    \/ MergedDoc_init
    \/ text_round_trip
    \/ text_translated
    \/ sentence_text_set
    \/ split_line_on_character_call
    \/ split_on_word_call

SpecMerge == InitMerge /\ [][NextMerge]_vars

\* C16: assigning the merged text read from a merged document back to it
\* leaves every fragment's text as it was.
C16_MergeRoundTrip ==
    (pure.pc = "set" /\ pure.op = "round trip")
    => (pure.raised = None /\ pure.frases = pure.orig)

\* A text that reads as a sentence: not empty, trimmed, its words one space
\* apart.
IsSentence(text) ==
    /\ text # <<>>
    /\ text[1] # " " /\ text[Len(text)] # " "
    /\ \A i \in 1..(Len(text) - 1) : ~(text[i] = " " /\ text[i + 1] = " ")

\* C17: assigning a translated sentence to a sentence of N >= 2 fragments
\* leaves N non-empty fragments whose texts, joined with single spaces, are
\* the translated sentence.
C17_SpreadOverAllFragments ==
    (/\ pure.pc = "set" /\ pure.op = "sentence"
     /\ Len(pure.sentences[pure.idx]) >= 2
     /\ IsSentence(pure.value))
    => /\ pure.raised = None
       /\ \A i \in 1..Len(pure.sentences[pure.idx]) :
              pure.frases[pure.sentences[pure.idx][i]] # <<>>
       /\ Sentence_text(pure.frases, pure.sentences[pure.idx]) = pure.value

\* C18: when the translated merged text cannot be mapped back for one
\* sentence, no exception escapes the setter and every other sentence
\* receives its translated text.
C18_OnlyHurtSentenceAbandoned ==
    (pure.pc = "set" /\ pure.op = "translated")
    => /\ pure.raised = None
       /\ \A idx \in 1..Len(pure.sentences) :
              idx # pure.hurt
              => pure.received[idx]
                     = <<Translate(Sentence_text(pure.orig, pure.sentences[idx]))>>

\* ---------------------------------------------------------------------
\* subtitle.py and the classes of the same names in translate.py: blocks and
\* documents.  The two differ in what is false: in translate.py a block
\* without lines is, and SrtDoc drops it; in subtitle.py no block is.

Modules == {"subtitle", "translate"}

\* The strings a block can be made of.
BlockStrs == UNION {[1..k -> {NL, "7", "x"}] : k \in 0..MaxBlockLen}

\* The segments of a document: a block of one line numbered 1, one numbered
\* 7, a block without text, and an index line alone.
Segments ==
    {<<"1", NL, "t", NL, "x">>, <<"7", NL, "t", NL, "x">>, <<"7", NL, "t">>, <<"7">>}

\* The documents of up to MaxBlocks segments.
SrtDocs ==
    {Join(<<NL, NL>>, segments) :
        segments \in UNION {[1..n -> Segments] : n \in 1..MaxBlocks}}

\* line.strip()
Strip(line) == LStrip(RStrip(line))

\* text.split('\n', maxsplit)
RECURSIVE SplitNL(_, _)
SplitNL(text, maxsplit) ==
    LET p == Find(text, NL, 0)
    IN  IF maxsplit = 0 \/ p = -1 THEN <<text>>
        ELSE <<Slice(text, 0, p)>>
             \o SplitNL(Slice(text, p + 1, Len(text)), maxsplit - 1)

\* srt_doc.split('\n\n')
RECURSIVE SplitBlocks(_)
SplitBlocks(srt_doc) ==
    LET found == {p \in 0..(Len(srt_doc) - 2) :
                     srt_doc[p + 1] = NL /\ srt_doc[p + 2] = NL}
    IN  IF found = {} THEN <<srt_doc>>
        ELSE <<Slice(srt_doc, 0, Least(found))>>
             \o SplitBlocks(Slice(srt_doc, Least(found) + 2, Len(srt_doc)))

NotEmpty(text) == text # <<>>

\* SrtBlock(block_str): the block, and what _parse raised.  Without tags
\* the pattern of the lines matches every line that is not empty, whole.
SrtBlock_parse(block_str) ==
    LET lines == SplitNL(Strip(block_str), 2)
    IN  IF Len(lines) < 2
        THEN [idx |-> lines[1], time |-> <<>>, lines |-> <<>>, raised |-> IndexError]
        ELSE [idx |-> lines[1], time |-> lines[2],
              lines |-> IF Len(lines) < 3 THEN <<>>
                        ELSE SelectSeq(SplitNL(lines[3], Len(lines[3])), NotEmpty),
              raised |-> None]

\* bool(block)
SrtBlock_bool(block, module) ==
    IF module = "translate" THEN block.lines # <<>> ELSE TRUE

\* str(block)
SrtBlock_str(block) ==
    IF block.idx # <<>> /\ block.time # <<>>
    THEN Join(<<NL>>, <<block.idx, block.time>>
                      \o SelectSeq(block.lines, NotEmpty) \o <<<<NL>>>>)
    ELSE <<>>

\* SrtDoc(srt_doc): the blocks, and what making them raised.
SrtDoc_blocks(srt_doc, module) ==
    LET segments == SelectSeq(SplitBlocks(srt_doc), NotEmpty)
        blocks == [i \in 1..Len(segments) |-> SrtBlock_parse(segments[i])]
        Kept(block) == SrtBlock_bool(block, module)
    IN  IF \E i \in 1..Len(blocks) : blocks[i].raised # None
        THEN [blocks |-> <<>>, raised |-> IndexError]
        ELSE [blocks |-> SelectSeq(blocks, Kept), raised |-> None]

\* str(srt_doc)
SrtDoc_str(blocks) == Concat([i \in 1..Len(blocks) |-> SrtBlock_str(blocks[i])])

\* No block or document made yet.
NoDoc ==
    [pc |-> "idle", module |-> "", block_str |-> <<>>, lines |-> <<>>,
     srt_doc |-> <<>>, blocks |-> <<>>, out |-> <<>>, raised |-> None]

InitSrt ==
    /\ req = [c \in Contexts |-> IdleCall]
    /\ cacheDir = <<>>
    /\ tempDir = <<>>
    /\ pool = NoPool
    /\ split = NoSplit
    /\ pure = NoDoc

\* SrtBlock(block_str)
SrtBlock_init ==
    /\ pure.pc = "idle"
    /\ \E block_str \in BlockStrs, module \in Modules :
          LET block == SrtBlock_parse(block_str)
          IN  pure' = [NoDoc EXCEPT !.pc = "block", !.module = module,
                                    !.block_str = block_str,
                                    !.lines = block.lines,
                                    !.raised = block.raised]
    /\ UNCHANGED <<req, cacheDir, tempDir, pool, split>>

\* SrtDoc(srt_doc)
SrtDoc_init ==
    /\ pure.pc = "idle"
    /\ \E srt_doc \in SrtDocs, module \in Modules :
          LET doc == SrtDoc_blocks(srt_doc, module)
          IN  pure' = [NoDoc EXCEPT !.pc = IF doc.raised = None THEN "doc" ELSE "raised",
                                    !.module = module, !.srt_doc = srt_doc,
                                    !.blocks = doc.blocks, !.raised = doc.raised]
    /\ UNCHANGED <<req, cacheDir, tempDir, pool, split>>

\* line.text = '' for every line of a block: its translation is empty.
lines_emptied ==
    /\ pure.pc = "doc"
    /\ \E b \in 1..Len(pure.blocks) :
          /\ pure.blocks[b].lines # <<>>
          /\ pure' = [pure EXCEPT
                 !.blocks[b].lines = [i \in 1..Len(pure.blocks[b].lines) |-> <<>>]]
    /\ UNCHANGED <<req, cacheDir, tempDir, pool, split>>

\* str(srt_doc)
SrtDoc_str_call ==
    /\ pure.pc = "doc"
    /\ pure' = [pure EXCEPT !.pc = "str", !.out = SrtDoc_str(pure.blocks)]
    /\ UNCHANGED <<req, cacheDir, tempDir, pool, split>>

NextSrt ==
    \/ SrtBlock_init
    \/ SrtDoc_init
    \/ lines_emptied
    \/ SrtDoc_str_call

SpecSrt == InitSrt /\ [][NextSrt]_vars

\* C19: constructing a block from a segment of fewer than 2 lines raises
\* nothing and gives a block without lines.
C19_ShortBlockTolerated ==
    (pure.pc = "block" /\ Len(SplitNL(Strip(pure.block_str), Len(pure.block_str))) < 2)
    => (pure.raised = None /\ pure.lines = <<>>)

\* The index lines of a serialised document: the first line of each block.
IndexLines(out) ==
    LET segments == SelectSeq(SplitBlocks(out), NotEmpty)
    IN  [i \in 1..Len(segments) |-> SplitNL(segments[i], 1)[1]]

\* The blocks that have a line that is not empty.
HasText(block) == \E i \in 1..Len(block.lines) : block.lines[i] # <<>>

\* C20: the serialised document numbers its blocks 1, 2, 3, ... and holds
\* nothing of a block that has no non-empty line.
C20_BlocksRenumbered ==
    pure.pc = "str"
    => IndexLines(pure.out) = [k \in 1..Len(SelectSeq(pure.blocks, HasText)) |-> Key(k)]

\* ---------------------------------------------------------------------
\* SrtDoc.stretch_time(display_time).  Times are whole numbers of a time
\* unit; a block is its start and end time.

\* The blocks of the documents of up to MaxBlocks + 1 blocks: no block ends
\* before it starts and the blocks are in the order of their start times.
TimedDocs ==
    LET Times == 0..MaxTime
        Block == {b \in [start_time : Times, end_time : Times] :
                     b.start_time <= b.end_time}
    IN  {blocks \in UNION {[1..n -> Block] : n \in 1..(MaxBlocks + 1)} :
            \A n \in 1..(Len(blocks) - 1) :
                blocks[n].start_time <= blocks[n + 1].start_time}

\* stretch_time(display_time): one pass over the pairs of consecutive
\* blocks, in document order.
stretch_time(blocks, display_time) ==
    [n \in 1..Len(blocks) |->
        IF n = Len(blocks) THEN blocks[n]
        ELSE LET gap == blocks[n + 1].start_time - blocks[n].end_time
                 stretched == blocks[n].start_time + display_time
             IN  IF 0 < gap /\ gap < display_time
                 THEN [blocks[n] EXCEPT !.end_time =
                          IF stretched < blocks[n + 1].start_time THEN stretched
                          ELSE blocks[n + 1].start_time]
                 ELSE blocks[n]]

\* srt_doc.stretch_time(display_time)
stretch_time_call ==
    /\ pure.pc = "idle"
    /\ \E blocks \in TimedDocs, display_time \in 1..MaxTime :
          pure' = [pc |-> "stretched", display_time |-> display_time,
                   orig |-> blocks, blocks |-> stretch_time(blocks, display_time)]
    /\ UNCHANGED <<req, cacheDir, tempDir, pool, split>>

NextStretch == stretch_time_call

SpecStretch == Init /\ [][NextStretch]_vars

\* C21: stretch_time changes no start time, moves no end time back, and
\* moves no end time behind the start of the next block that was not behind
\* it before.
C21_StretchOnlyExtends ==
    pure.pc = "stretched"
    => \A n \in 1..Len(pure.blocks) :
           /\ pure.blocks[n].start_time = pure.orig[n].start_time
           /\ n < Len(pure.blocks)
              => /\ pure.blocks[n].end_time >= pure.orig[n].end_time
                 /\ pure.orig[n].end_time <= pure.orig[n + 1].start_time
                    => pure.blocks[n].end_time <= pure.blocks[n + 1].start_time

\* ---------------------------------------------------------------------
\* convert.py: vtt_to_srt.  "T" stands for the text of cue timings as the
\* pattern of line 99 matches it, "S" for the timings as line 132 writes
\* them, "x" for any other character; no text holds markup, so the
\* substitutions of lines 139-160 change nothing.

CR == "\r"

\* The vtt documents of up to MaxVttLen characters.
VttDocs == UNION {[1..k -> {NL, CR, "T", "x"}] : k \in 0..MaxVttLen}

\* regex.match(line)
IsTimings(line) == line # <<>> /\ line[1] = "T"

\* A faulty variant: a block is a cue block only when its first line holds
\* the timings.
first_line_timings(lines) ==
    IF IsTimings(lines[1]) THEN 1 ELSE 0

\* Lines 114-126: the position of the line with the cue timings among the
\* lines of a block, 0 when the block is not a cue block.
timings_match(lines) ==
    IF IsTimings(lines[1]) THEN 1
    ELSE IF Len(lines) >= 2 /\ IsTimings(lines[2]) THEN 2
    ELSE 0

\* vtt_to_srt(vtt_doc)
vtt_to_srt(vtt_doc) ==
    LET n == Len(vtt_doc)
        \* lines 102-103
        newlines[i \in 0..n] ==
            IF i = 0 THEN <<>>
            ELSE IF vtt_doc[i] # CR THEN Append(newlines[i - 1], vtt_doc[i])
            ELSE IF i < n /\ vtt_doc[i + 1] = NL THEN newlines[i - 1]
            ELSE Append(newlines[i - 1], NL)
        vtt_blocks == SplitBlocks(newlines[n])
        \* lines 110-135: what has been written and seq_nr after i blocks
        written[i \in 0..Len(vtt_blocks)] ==
            IF i = 0 THEN [f |-> <<>>, seq_nr |-> 0]
            ELSE LET lines == SplitNL(vtt_blocks[i], Len(vtt_blocks[i]))
                     at == timings_match(lines)
                     seq_nr == written[i - 1].seq_nr + 1
                     payload == SubSeq(lines, at + 1, Len(lines))
                 IN  IF at = 0 THEN written[i - 1]
                     ELSE [f |-> written[i - 1].f \o <<NL>> \o Key(seq_nr)
                                 \o <<NL, "S", NL>>
                                 \o Concat([j \in 1..Len(payload) |->
                                               Append(payload[j], NL)]),
                           seq_nr |-> seq_nr]
    IN  written[Len(vtt_blocks)].f

\* vtt_to_srt(vtt_doc)
vtt_to_srt_call ==
    /\ pure.pc = "idle"
    /\ \E vtt_doc \in VttDocs :
          pure' = [pc |-> "converted", vtt_doc |-> vtt_doc,
                   srt_doc |-> vtt_to_srt(vtt_doc)]
    /\ UNCHANGED <<req, cacheDir, tempDir, pool, split>>

NextVtt == vtt_to_srt_call

SpecVtt == Init /\ [][NextVtt]_vars

\* The blocks of a vtt document, each as its lines: line ends of any style
\* are line ends and an empty line ends a block.
VttBlocks(vtt_doc) ==
    LET IsEnd(i) == vtt_doc[i] \in {NL, CR}
                    /\ ~(vtt_doc[i] = NL /\ i > 1 /\ vtt_doc[i - 1] = CR)
        text == [i \in {j \in 1..Len(vtt_doc) :
                           ~(vtt_doc[j] = NL /\ j > 1 /\ vtt_doc[j - 1] = CR)} |->
                    IF IsEnd(i) THEN NL ELSE vtt_doc[i]]
        kept == SelectSeq([i \in 1..Len(vtt_doc) |->
                              IF i \in DOMAIN text THEN <<text[i]>> ELSE <<>>],
                          NotEmpty)
        blocks == SplitBlocks(Concat(kept))
    IN  [i \in 1..Len(blocks) |-> SplitNL(blocks[i], Len(blocks[i]))]

\* A block whose first or second line starts with cue timings.
IsCueBlock(lines) ==
    \E i \in 1..2 : i <= Len(lines) /\ lines[i] # <<>> /\ lines[i][1] = "T"

\* The number of characters ch in a text.
Count(text, ch) == Cardinality({i \in 1..Len(text) : text[i] = ch})

\* C22: the srt document holds one cue for each cue block of the vtt
\* document, numbered 1, 2, 3, ... in order, each number followed by its
\* timings, and holds nothing of any other block.
C22_CueBlocksRenumbered ==
    pure.pc = "converted"
    => LET cues == SelectSeq(VttBlocks(pure.vtt_doc), IsCueBlock)
           lines == SplitNL(pure.srt_doc, Len(pure.srt_doc))
           IsIndex(line) == line # <<>> /\ \A i \in 1..Len(line) : IsDigit(line[i])
           numbered == {i \in 1..Len(lines) : IsIndex(lines[i])}
           After(at, lines_of) == Concat(SubSeq(lines_of, at + 1, Len(lines_of)))
           Payload(cue) ==
               After(IF cue[1] # <<>> /\ cue[1][1] = "T" THEN 1 ELSE 2, cue)
       IN  /\ SelectSeq(lines, IsIndex) = [k \in 1..Len(cues) |-> Key(k)]
           /\ \A i \in numbered : i < Len(lines) /\ lines[i + 1] = <<"S">>
           /\ Count(pure.srt_doc, "S") = Len(cues)
           /\ \A ch \in {"x", "T"} :
                  Count(pure.srt_doc, ch)
                      = Count(Concat([k \in 1..Len(cues) |-> Payload(cues[k])]), ch)

\* A cue identifier, the timings, and a second cue after an empty line.
C22_Witness ==
    /\ pure.pc = "converted"
    /\ pure.vtt_doc = <<"x", NL, "T", CR, CR, "T">>
    /\ pure.srt_doc = <<NL, "1", NL, "S", NL, NL, "2", NL, "S", NL>>

\* ---------------------------------------------------------------------
\* cleanup_cached_files(max_age) on a cache directory of entries with a kind
\* and a change time.

\* A faulty variant: a file as old as max_age is expired as well.
ExpiredOrAsOld(entries, expire_time) ==
    {name \in DOMAIN entries :
        entries[name].is_file /\ entries[name].st_ctime <= expire_time}

\* Lines 467-470: the entries the sweep removes.
Expired(entries, expire_time) ==
    {name \in DOMAIN entries :
        entries[name].is_file /\ entries[name].st_ctime < expire_time}

\* cleanup_cached_files(max_age) at time now.  The directory holds up to two
\* files and a sub-directory, none changed after now.  The sweep removes the
\* expired files one by one in the order scandir gives them; when a call of
\* the operating system fails, the handler of line 472 logs the error and
\* the sweep ends with the files removed so far.
cleanup_cached_files_call ==
    /\ pure.pc = "idle"
    /\ \E now \in 0..MaxTime, max_age \in 0..MaxTime, error \in BOOLEAN,
          names \in SUBSET {"a", "b", "sub"} :
          \E entries \in [names -> [is_file : BOOLEAN, st_ctime : 0..now]] :
             /\ \A name \in names : entries[name].is_file <=> name # "sub"
             /\ \E removed \in SUBSET Expired(entries, now - max_age) :
                   /\ ~error => removed = Expired(entries, now - max_age)
                   /\ pure' = [pc |-> "swept", now |-> now, max_age |-> max_age,
                               before |-> entries, error |-> error,
                               after |-> Remove(entries, removed)]
    /\ UNCHANGED <<req, cacheDir, tempDir, pool, split>>

NextCleanup == cleanup_cached_files_call

SpecCleanup == Init /\ [][NextCleanup]_vars

\* The files older than max_age, the files younger, the sub-directories.
Older(entries, now, max_age) ==
    {name \in DOMAIN entries :
        entries[name].is_file /\ now - entries[name].st_ctime > max_age}
Younger(entries, now, max_age) ==
    {name \in DOMAIN entries :
        entries[name].is_file /\ now - entries[name].st_ctime < max_age}

Closing(frases) ==
    {i \in 1..Len(frases) :
        frases[i] # <<>> /\ frases[i][Len(frases[i])] \in {".", "!", "?"}}

\* The last fragment of the k-th sentence, 0 for k = 0.
LastOf(sentences, k) == IF k = 0 THEN 0 ELSE sentences[k][Len(sentences[k])]

\* C24: a sentence is closed exactly at each non-empty fragment that ends in
\* '.', '!' or '?'; the k-th sentence holds, in order, the non-empty
\* fragments behind the end of the one before it up to the k-th closing
\* fragment, and no empty fragment is in a sentence.
C24_SentencesCloseAtTerminals ==
    pure.pc = "merged"
    => /\ Len(pure.sentences) = Cardinality(Closing(pure.orig))
       /\ \A k \in 1..Len(pure.sentences) :
              LET sentence == pure.sentences[k]
                  from == LastOf(pure.sentences, k - 1)
                  to == LastOf(pure.sentences, k)
                  held == {i \in (from + 1)..to : pure.orig[i] # <<>>}
              IN  /\ to \in Closing(pure.orig)
                  /\ Closing(pure.orig) \cap (from + 1)..(to - 1) = {}
                  /\ {sentence[j] : j \in 1..Len(sentence)} = held
                  /\ Len(sentence) = Cardinality(held)
                  /\ \A j \in 1..(Len(sentence) - 1) : sentence[j] < sentence[j + 1]

\* Two sentences with an empty fragment between them and a comma inside.
C24_Witness ==
    /\ pure.pc = "merged"
    /\ pure.orig = <<<<"a", ",">>, <<>>, <<"a", ".">>>>
    /\ pure.sentences = <<<<1, 3>>>>

\* C25 as stated: every cut is made at round(len(remaining text) * r_i).
C25_CutAtRounded ==
    (pure.pc = "set" /\ pure.op = "sentence")
    => \A i \in 1..Len(pure.cuts) :
           pure.cuts[i].split_pos
               = split_pos_rounded(Len(pure.cuts[i].new_text),
                                   pure.cuts[i].orig_length, pure.cuts[i].rest)

\* C25 amended: for i = 1..N-1 the cut of fragment i is made at the integer
\* part of len(remaining text) * r_i, r_i the original length of fragment i
\* over the original lengths from fragment i on, and the last fragment
\* receives the text that remains.
C25_CutAtIntegerPart ==
    (pure.pc = "set" /\ pure.op = "sentence")
    => LET sentence == pure.sentences[pure.idx]
           N == Len(sentence)
           lengths == [i \in 1..N |-> Len(pure.orig[sentence[i]])]
       IN  /\ Len(pure.cuts) = N - 1
           /\ \A i \in 1..(N - 1) :
                  LET cut == pure.cuts[i]
                      product == Len(cut.new_text) * lengths[i]
                      suffix == SumFrom(lengths, i)
                  IN  /\ cut.new_text = IF i = 1 THEN pure.value
                                        ELSE pure.cuts[i - 1].remainder
                      /\ cut.split_pos * suffix <= product
                      /\ product < (cut.split_pos + 1) * suffix
           /\ pure.frases[sentence[N]]
                  = IF N = 1 THEN pure.value ELSE pure.cuts[N - 1].remainder

\* A cut where the integer part and the rounded number differ.
C25_Witness ==
    /\ pure.pc = "set" /\ pure.op = "sentence" /\ pure.cuts # <<>>
    /\ pure.cuts[1].split_pos
           # split_pos_rounded(Len(pure.cuts[1].new_text),
                               pure.cuts[1].orig_length, pure.cuts[1].rest)

\* The positions of a character in a line, counted from 0, and the cut
\* behind one of them.
Occurrences(line, ch) == {q \in 0..(Len(line) - 1) : line[q + 1] = ch}
CutBehind(line, q) ==
    <<Slice(line, 0, q + 1), LStrip(Slice(line, q + 1, Len(line)))>>
Distance(q, p) == IF q < p THEN p - q ELSE q - p

\* C26 as stated: the cut is made behind the occurrence nearest to p of
\* those within p/2 of p on either side, and not made when there is none.
C26_CutAtNearestCharacter ==
    (pure.pc = "cut" /\ pure.op = "character")
    => LET p == pure.split_idx
           near == {q \in Occurrences(pure.value, ",") : 2 * Distance(q, p) <= p}
       IN  IF near = {} THEN pure.cut = <<<<>>, pure.value>>
           ELSE \E q \in near :
                   /\ \A r \in near : Distance(q, p) <= Distance(r, p)
                   /\ pure.cut = CutBehind(pure.value, q)

\* C26 amended: the cut is made behind the last occurrence before p when it
\* lies no more than p/2 before p; otherwise behind the first occurrence at
\* or behind p when it lies less than p/2 behind p; otherwise not at all.
C26_CutBackwardFirst ==
    (pure.pc = "cut" /\ pure.op = "character")
    => LET p == pure.split_idx
           before == {q \in Occurrences(pure.value, ",") : q < p}
           behind == {q \in Occurrences(pure.value, ",") : q >= p}
           last == CHOOSE q \in before : \A r \in before : r <= q
           first == CHOOSE q \in behind : \A r \in behind : q <= r
       IN  IF before # {} /\ 2 * (p - last) <= p
           THEN pure.cut = CutBehind(pure.value, last)
           ELSE IF behind # {} /\ p > 0 /\ 2 * (first - p) < p
           THEN pure.cut = CutBehind(pure.value, first)
           ELSE pure.cut = <<<<>>, pure.value>>

\* A comma before and a comma at the preferred position: the cut is behind
\* the one before.
C26_Witness ==
    /\ pure.pc = "cut" /\ pure.op = "character"
    /\ pure.value = <<"b", ",", ",">> /\ pure.split_idx = 2
    /\ pure.cut = <<<<"b", ",">>, <<",">>>>

\* C27: the word cut is made at the space nearest to pos of the nearest at
\* or before pos and the nearest at or behind pos, and removes only that
\* space.
C27_CutAtNearestSpace ==
    (pure.pc = "cut" /\ pure.op = "word" /\ Occurrences(pure.value, " ") # {})
    => LET pos == pure.split_idx
           spaces == Occurrences(pure.value, " ")
           before == {q \in spaces : q <= pos}
           behind == {q \in spaces : q >= pos}
           nearest == {q \in before : \A r \in before : r <= q}
                      \cup {q \in behind : \A r \in behind : q <= r}
       IN  /\ \E q \in nearest :
                 /\ \A r \in nearest : Distance(q, pos) <= Distance(r, pos)
                 /\ pure.cut = <<Slice(pure.value, 0, q),
                                 Slice(pure.value, q + 1, Len(pure.value))>>
           /\ pure.cut[1] \o <<" ">> \o pure.cut[2] = pure.value

\* C29: the fragments behind the last closing fragment are in no sentence,
\* and assigning a text to the merged document leaves their text as it was.
C29_TrailingFragmentsUntouched ==
    (pure.pc = "set" /\ pure.op \in {"round trip", "translated"})
    => \A i \in 1..Len(pure.orig) :
           (\A j \in Closing(pure.orig) : j < i)
           => /\ pure.frases[i] = pure.orig[i]
              /\ \A k \in 1..Len(pure.sentences) :
                     \A j \in 1..Len(pure.sentences[k]) : pure.sentences[k][j] # i

\* A translated sentence followed by a fragment without a terminal.
C29_Witness ==
    /\ pure.pc = "set" /\ pure.op = "translated" /\ pure.hurt = 0
    /\ pure.orig = <<<<"a", ".">>, <<"a">>>>
    /\ pure.frases = <<<<"b", ".">>, <<"a">>>>

\* ---------------------------------------------------------------------
\* C28: a call that takes the cache-hit path and returns the delivery path
\* has copied a completely written translation to it, never the empty file
\* another call for the same key has just created.
C28_CacheHitDeliversWholeFile ==
    [][\A c \in Contexts :
          (req[c].pc = "copy" /\ req'[c].pc = "idle" /\ IsPath(req'[c].result))
          => /\ IsFile(tempDir', KodiFileOf(c))
             /\ tempDir'[KodiFileOf(c)] # EmptyFile]_vars

(***************************************************************************)
(* The service's PlayerMonitor.  pure holds the monitor's field            *)
(* subtitles_may_be_downloaded and, of the event handled last, its name,   *)
(* what the handler read (the setting run_on_pause, whether the            *)
(* subtitle-search window is active) and whether it called                 *)
(* _execute_subtitles_translation (executed).  events counts the events,   *)
(* deferred the pauses that set the field, resumed the resumes that called *)
(* _execute_subtitles_translation.                                         *)
(***************************************************************************)
\* PlayerMonitor.__init__()
PlayerMonitor_init ==
    /\ pure.pc = "idle"
    /\ pure' = [pc |-> "monitoring", subtitles_may_be_downloaded |-> FALSE,
                event |-> "-", run_on_pause |-> FALSE, window_active |-> FALSE,
                executed |-> FALSE, events |-> 0, deferred |-> 0, resumed |-> 0]
    /\ UNCHANGED <<req, cacheDir, tempDir, pool, split>>

\* onAVStarted()
onAVStarted ==
    /\ pure.pc = "monitoring" /\ pure.events < MaxEvents
    /\ pure' = [pure EXCEPT !.event = "AVStarted", !.executed = TRUE,
                            !.events = @ + 1]
    /\ UNCHANGED <<req, cacheDir, tempDir, pool, split>>

\* onPlayBackPaused()
onPlayBackPaused ==
    /\ pure.pc = "monitoring" /\ pure.events < MaxEvents
    /\ \E run_on_pause \in BOOLEAN, window_active \in BOOLEAN :
          LET paused == [pure EXCEPT !.event = "pause", !.events = @ + 1,
                                     !.run_on_pause = run_on_pause,
                                     !.window_active = window_active]
          IN  IF ~run_on_pause
              THEN pure' = [paused EXCEPT !.executed = FALSE]
              ELSE IF window_active
              THEN pure' = [paused EXCEPT !.subtitles_may_be_downloaded = TRUE,
                                          !.executed = FALSE,
                                          !.deferred = @ + 1]
              ELSE pure' = [paused EXCEPT !.executed = TRUE]
    /\ UNCHANGED <<req, cacheDir, tempDir, pool, split>>

\* A faulty variant: the field is not cleared.
onPlayBackResumed_keeping ==
    /\ pure.pc = "monitoring" /\ pure.events < MaxEvents
    /\ \E run_on_pause \in BOOLEAN :
          LET resumed == [pure EXCEPT !.event = "resume", !.events = @ + 1,
                                      !.run_on_pause = run_on_pause]
          IN  IF run_on_pause /\ pure.subtitles_may_be_downloaded
              THEN pure' = [resumed EXCEPT !.executed = TRUE, !.resumed = @ + 1]
              ELSE pure' = [resumed EXCEPT !.executed = FALSE]
    /\ UNCHANGED <<req, cacheDir, tempDir, pool, split>>

\* onPlayBackResumed()
onPlayBackResumed ==
    /\ pure.pc = "monitoring" /\ pure.events < MaxEvents
    /\ \E run_on_pause \in BOOLEAN :
          LET resumed == [pure EXCEPT !.event = "resume", !.events = @ + 1,
                                      !.run_on_pause = run_on_pause]
          IN  IF run_on_pause /\ pure.subtitles_may_be_downloaded
              THEN pure' = [resumed EXCEPT !.subtitles_may_be_downloaded = FALSE,
                                           !.executed = TRUE,
                                           !.resumed = @ + 1]
              ELSE pure' = [resumed EXCEPT !.executed = FALSE]
    /\ UNCHANGED <<req, cacheDir, tempDir, pool, split>>

NextMonitor ==
    \/ PlayerMonitor_init
    \/ onAVStarted
    \/ onPlayBackPaused
    \/ onPlayBackResumed

SpecMonitor == Init /\ [][NextMonitor]_vars

\* C30: with run_on_pause enabled, a pause while the subtitle-search window
\* is active starts no translation and sets the field; a resume starts a
\* translation exactly when the field is set, and clears it; so the resumes
\* that started a translation are never more than the pauses that deferred
\* one.
C30_DeferredPauseRunsOnceOnResume ==
    /\ [](pure.pc = "monitoring" => pure.resumed <= pure.deferred)
    /\ [][(pure.pc = "monitoring" /\ pure'.run_on_pause)
          => /\ (pure'.event = "pause" /\ pure'.window_active)
                => (~pure'.executed /\ pure'.subtitles_may_be_downloaded)
             /\ pure'.event = "resume"
                => /\ pure'.executed <=> pure.subtitles_may_be_downloaded
                   /\ ~pure'.subtitles_may_be_downloaded]_vars

\* Two deferred pauses, then a resume that started the one translation.
C30_Witness ==
    /\ pure.pc = "monitoring" /\ pure.event = "resume" /\ pure.executed
    /\ pure.deferred = 2 /\ pure.resumed = 1
    /\ ~pure.subtitles_may_be_downloaded

====
